---- MODULE Spec2Model ----
(***************************************************************************)
(* Model of zendesk/webhook.go: the six webhook operations of the client,  *)
(* each one HTTP round trip with JSON encode/decode at the boundary.       *)
(*                                                                         *)
(* An invocation runs in a goroutine.  It blocks once, in the transport    *)
(* call, so a handler is two steps: <Op>Call (everything up to and         *)
(* including handing the request to the transport) and <Op>Return (the     *)
(* transport call returns and the handler runs to its return statement).   *)
(* Goroutines sharing one client interleave at that blocking point.        *)
(***************************************************************************)
EXTENDS Integers, Sequences, FiniteSets, TLC

(***************************************************************************)
(* Go values.  nil (pointer, interface, error) is Nil.  JSON documents are *)
(* tagged records: the two non-documents (zero bytes, a syntax error) and  *)
(* the JSON values null, string, number, array and object.                 *)
(***************************************************************************)
Nil == [nil |-> TRUE]

JEmpty == [j |-> "empty"]
JMalformed == [j |-> "malformed"]
JNull == [j |-> "null"]
JStr(s) == [j |-> "string", v |-> s]
JNum(n) == [j |-> "number", v |-> n]
JArr(elems) == [j |-> "array", v |-> elems]
JObj(members) == [j |-> "object", v |-> members]
NoMembers == [k \in {} |-> JNull]

\* time.Time and its RFC 3339 text, as encoding/json writes and reads it.
ZeroTime == [wall |-> "0001-01-01 00:00:00 UTC"]
SomeTime == [wall |-> "2023-04-05 06:07:08 UTC"]
TimeTable == {<<ZeroTime, "0001-01-01T00:00:00Z">>, <<SomeTime, "2023-04-05T06:07:08Z">>}
FormatTime(t) == (CHOOSE e \in TimeTable : e[1] = t)[2]
ParsesAsTime(s) == \E e \in TimeTable : e[2] = s
ParseTime(s) == (CHOOSE e \in TimeTable : e[2] = s)[1]

(***************************************************************************)
(* type Webhook struct: one row per field, with its json tag.              *)
(***************************************************************************)
WebhookFields ==
  << [field |-> "Authentication", key |-> "authentication", omitempty |-> TRUE, kind |-> "auth"],
     [field |-> "CreatedAt", key |-> "created_at", omitempty |-> TRUE, kind |-> "time"],
     [field |-> "CreatedBy", key |-> "created_by", omitempty |-> TRUE, kind |-> "string"],
     [field |-> "Description", key |-> "description", omitempty |-> TRUE, kind |-> "string"],
     [field |-> "Endpoint", key |-> "endpoint", omitempty |-> FALSE, kind |-> "string"],
     [field |-> "ExternalSource", key |-> "external_source", omitempty |-> TRUE, kind |-> "iface"],
     [field |-> "HTTPMethod", key |-> "http_method", omitempty |-> FALSE, kind |-> "string"],
     [field |-> "ID", key |-> "id", omitempty |-> TRUE, kind |-> "string"],
     [field |-> "Name", key |-> "name", omitempty |-> FALSE, kind |-> "string"],
     [field |-> "RequestFormat", key |-> "request_format", omitempty |-> FALSE, kind |-> "string"],
     [field |-> "SigningSecret", key |-> "signing_secret", omitempty |-> TRUE, kind |-> "secret"],
     [field |-> "Status", key |-> "status", omitempty |-> FALSE, kind |-> "string"],
     [field |-> "Subscriptions", key |-> "subscriptions", omitempty |-> TRUE, kind |-> "slice"],
     [field |-> "UpdatedAt", key |-> "updated_at", omitempty |-> TRUE, kind |-> "time"],
     [field |-> "UpdatedBy", key |-> "updated_by", omitempty |-> TRUE, kind |-> "string"] >>

\* type WebhookAuthentication struct and type WebhookSigningSecret struct.
WebhookAuthenticationFields ==
  << [field |-> "Type", key |-> "type", omitempty |-> FALSE, kind |-> "string"],
     [field |-> "Data", key |-> "data", omitempty |-> FALSE, kind |-> "iface"],
     [field |-> "AddPosition", key |-> "add_position", omitempty |-> FALSE, kind |-> "string"] >>

WebhookSigningSecretFields ==
  << [field |-> "Algorithm", key |-> "algorithm", omitempty |-> FALSE, kind |-> "string"],
     [field |-> "Secret", key |-> "secret", omitempty |-> FALSE, kind |-> "string"] >>

Range(s) == {s[i] : i \in DOMAIN s}
KeysOf(fields) == {t.key : t \in Range(fields)}
TagOf(fields, k) == CHOOSE t \in Range(fields) : t.key = k

(***************************************************************************)
(* encoding/json on these structs.  omitempty drops a field whose value is *)
(* "empty": a zero-length string or slice, a nil pointer or interface.  A  *)
(* struct value such as time.Time is never empty.                          *)
(***************************************************************************)
IsEmptyValue(kind, v) ==
  CASE kind = "string" -> v = ""
    [] kind = "slice" -> Len(v) = 0
    [] kind \in {"auth", "secret", "iface"} -> v = Nil
    [] OTHER -> FALSE

ZeroValue(kind) ==
  CASE kind = "string" -> ""
    [] kind = "slice" -> <<>>
    [] kind = "time" -> ZeroTime
    [] OTHER -> Nil

EmittedKeys(fields, h) ==
  {t.key : t \in {u \in Range(fields) : ~(u.omitempty /\ IsEmptyValue(u.kind, h[u.field]))}}

\* A nested struct has only string and interface fields.
MarshalFlat(fields, h) ==
  JObj([k \in KeysOf(fields) |->
          LET t == TagOf(fields, k)
          IN  IF t.kind = "string" THEN JStr(h[t.field])
              ELSE IF h[t.field] = Nil THEN JNull ELSE h[t.field]])

MarshalField(kind, v) ==
  CASE kind = "string" -> JStr(v)
    [] kind = "time" -> JStr(FormatTime(v))
    [] kind = "slice" -> JArr([i \in DOMAIN v |-> JStr(v[i])])
    [] kind = "auth" -> IF v = Nil THEN JNull ELSE MarshalFlat(WebhookAuthenticationFields, v)
    [] kind = "secret" -> IF v = Nil THEN JNull ELSE MarshalFlat(WebhookSigningSecretFields, v)
    [] OTHER -> IF v = Nil THEN JNull ELSE v

MarshalWebhook(h) ==
  IF h = Nil THEN JNull
  ELSE JObj([k \in EmittedKeys(WebhookFields, h) |->
               LET t == TagOf(WebhookFields, k) IN MarshalField(t.kind, h[t.field])])

\* The request envelope of CreateWebhook and UpdateWebhook:
\* var data struct { Webhook *Webhook `json:"webhook"` }.
MarshalEnvelope(data) == JObj([k \in {"webhook"} |-> MarshalWebhook(data.Webhook)])

(***************************************************************************)
(* json.Unmarshal into these structs.  A member the struct does not name   *)
(* is skipped, a missing or null member leaves the field at its zero       *)
(* value, and a member of the wrong JSON type is an error.                 *)
(***************************************************************************)
FlatOk(fields, members) ==
  \A t \in Range(fields) :
     t.key \in DOMAIN members =>
        \/ members[t.key].j = "null"
        \/ t.kind = "iface"
        \/ t.kind = "string" /\ members[t.key].j = "string"

FlatVal(fields, members) ==
  [n \in {t.field : t \in Range(fields)} |->
     LET t == CHOOSE u \in Range(fields) : u.field = n
     IN  IF t.key \notin DOMAIN members \/ members[t.key].j = "null" THEN ZeroValue(t.kind)
         ELSE IF t.kind = "string" THEN members[t.key].v
         ELSE members[t.key]]

FieldOk(kind, jv) ==
  CASE jv.j = "null" -> TRUE
    [] kind = "string" -> jv.j = "string"
    [] kind = "time" -> jv.j = "string" /\ ParsesAsTime(jv.v)
    [] kind = "slice" -> jv.j = "array" /\ \A i \in DOMAIN jv.v : jv.v[i].j = "string"
    [] kind = "auth" -> jv.j = "object" /\ FlatOk(WebhookAuthenticationFields, jv.v)
    [] kind = "secret" -> jv.j = "object" /\ FlatOk(WebhookSigningSecretFields, jv.v)
    [] OTHER -> TRUE

FieldVal(kind, jv) ==
  CASE jv.j = "null" -> ZeroValue(kind)
    [] kind = "string" -> jv.v
    [] kind = "time" -> ParseTime(jv.v)
    [] kind = "slice" -> [i \in DOMAIN jv.v |-> jv.v[i].v]
    [] kind = "auth" -> FlatVal(WebhookAuthenticationFields, jv.v)
    [] kind = "secret" -> FlatVal(WebhookSigningSecretFields, jv.v)
    [] OTHER -> jv

WebhookOk(members) ==
  \A t \in Range(WebhookFields) : t.key \in DOMAIN members => FieldOk(t.kind, members[t.key])

UnmarshalWebhook(members) ==
  [n \in {t.field : t \in Range(WebhookFields)} |->
     LET t == CHOOSE u \in Range(WebhookFields) : u.field = n
     IN  IF t.key \in DOMAIN members THEN FieldVal(t.kind, members[t.key]) ELSE ZeroValue(t.kind)]

\* The errors of json.Unmarshal: *json.SyntaxError and *json.UnmarshalTypeError.
\* An error value carries its kind, its cause and the context wrapped around it.
SyntaxError == [kind |-> "DecodeError", cause |-> "syntax", wrap |-> <<>>]
TypeError == [kind |-> "DecodeError", cause |-> "type", wrap |-> <<>>]

\* What json.Unmarshal does with the document before it looks at any member:
\* Nil when the members of a JSON object are to be decoded, "skip" for a
\* top-level null (nothing is stored), otherwise the error.
TopLevelError(body) ==
  IF body.j \in {"empty", "malformed"} THEN SyntaxError
  ELSE IF body.j \notin {"object", "null"} THEN TypeError
  ELSE Nil

Member(body, key) ==
  IF body.j = "object" /\ key \in DOMAIN body.v THEN body.v[key] ELSE JNull

\* var result struct { Webhook *Webhook `json:"webhook"` }; json.Unmarshal(body, &result).
\* The pointer starts nil: a webhook object is decoded into a newly allocated Webhook.
UnmarshalResult(body) ==
  LET m == Member(body, "webhook")
  IN  IF TopLevelError(body) # Nil THEN [Webhook |-> Nil, err |-> TopLevelError(body)]
      ELSE IF m.j = "null" THEN [Webhook |-> Nil, err |-> Nil]
      ELSE IF m.j # "object" \/ ~WebhookOk(m.v) THEN [Webhook |-> Nil, err |-> TypeError]
      ELSE [Webhook |-> UnmarshalWebhook(m.v), err |-> Nil]

\* var result struct { SigningSecret *WebhookSigningSecret `json:"signing_secret"` }.
UnmarshalSecretResult(body) ==
  LET m == Member(body, "signing_secret")
  IN  IF TopLevelError(body) # Nil THEN [SigningSecret |-> Nil, err |-> TopLevelError(body)]
      ELSE IF m.j = "null" THEN [SigningSecret |-> Nil, err |-> Nil]
      ELSE IF m.j # "object" \/ ~FlatOk(WebhookSigningSecretFields, m.v)
           THEN [SigningSecret |-> Nil, err |-> TypeError]
      ELSE [SigningSecret |-> FlatVal(WebhookSigningSecretFields, m.v), err |-> Nil]

\* type Page: the pagination descriptor shared across the API.  Its cursors come
\* from the pagination metadata of the response; without it the Page is zero.
ZeroPage == [After |-> "", Before |-> ""]
CursorOf(meta, key) ==
  IF key \in DOMAIN meta /\ meta[key].j = "string" THEN meta[key].v ELSE ""
UnmarshalPage(body) ==
  LET m == Member(body, "meta")
  IN  IF m.j = "object"
      THEN [After |-> CursorOf(m.v, "after_cursor"), Before |-> CursorOf(m.v, "before_cursor")]
      ELSE ZeroPage

\* var data struct { Webhooks []Webhook `json:"webhooks"`; Page }.  A nil slice is
\* Nil; a JSON array, even an empty one, gives a slice that is not nil.
UnmarshalData(body) ==
  LET m == Member(body, "webhooks")
      ok == m.j = "array" /\ \A i \in DOMAIN m.v : m.v[i].j = "object" /\ WebhookOk(m.v[i].v)
  IN  IF TopLevelError(body) # Nil
      THEN [Webhooks |-> Nil, Page |-> ZeroPage, err |-> TopLevelError(body)]
      ELSE IF m.j = "null" THEN [Webhooks |-> Nil, Page |-> UnmarshalPage(body), err |-> Nil]
      ELSE IF ~ok THEN [Webhooks |-> Nil, Page |-> ZeroPage, err |-> TypeError]
      ELSE [Webhooks |-> [elems |-> [i \in DOMAIN m.v |-> UnmarshalWebhook(m.v[i].v)]],
            Page |-> UnmarshalPage(body), err |-> Nil]

(***************************************************************************)
(* type WebhookListOptions struct: one row per field, with its url tag,    *)
(* and the embedded PageOptions.                                           *)
(***************************************************************************)
\* (variant: the omitempty option is missing from the sort tag)
WebhookListOptionsFieldsSortAlways ==
  << [field |-> "FilterNameContains", name |-> "filter[name_contains]", omitempty |-> TRUE],
     [field |-> "FilterStatus", name |-> "filter[status]", omitempty |-> TRUE],
     [field |-> "PageAfter", name |-> "page[after]", omitempty |-> TRUE],
     [field |-> "PageBefore", name |-> "page[before]", omitempty |-> TRUE],
     [field |-> "PageSize", name |-> "page[size]", omitempty |-> TRUE],
     [field |-> "Sort", name |-> "sort", omitempty |-> FALSE] >>
WebhookListOptionsFields ==
  << [field |-> "FilterNameContains", name |-> "filter[name_contains]", omitempty |-> TRUE],
     [field |-> "FilterStatus", name |-> "filter[status]", omitempty |-> TRUE],
     [field |-> "PageAfter", name |-> "page[after]", omitempty |-> TRUE],
     [field |-> "PageBefore", name |-> "page[before]", omitempty |-> TRUE],
     [field |-> "PageSize", name |-> "page[size]", omitempty |-> TRUE],
     [field |-> "Sort", name |-> "sort", omitempty |-> TRUE] >>

\* type PageOptions: the embedded struct is encoded inline, before the fields of
\* WebhookListOptions.  The list endpoint documents no parameter of its own for it.
ZeroPageOptions == [zero |-> TRUE]
PageOptionsValues(po) == <<>>

\* The query encoder on a *WebhookListOptions: one pair per field, a field tagged
\* omitempty only when it is not "", ordered by parameter name (the order of the
\* struct's fields).
Values(opts) ==
  LET kept == SelectSeq(WebhookListOptionsFields,
                        LAMBDA t : ~(t.omitempty /\ opts[t.field] = ""))
  IN  PageOptionsValues(opts.PageOptions)
        \o [i \in DOMAIN kept |-> <<kept[i].name, opts[kept[i].field]>>]

\* addOptions(s, opts): the URL s with the encoded options as its query.
\* Encoding a *WebhookListOptions, a struct of strings, does not fail: err is nil.
addOptions(s, opts) == [u |-> [path |-> s, query |-> Values(opts)], err |-> Nil]

(***************************************************************************)
(* The transport of the client: z.get, z.post, z.put and z.delete.  Each   *)
(* hands one request to the HTTP layer (post and put with the JSON         *)
(* encoding of data as its body) and turns the outcome of the round trip   *)
(* into the raw body or an error.                                          *)
(***************************************************************************)
get(u) == [verb |-> "GET", url |-> u, body |-> Nil]
post(u, data) == [verb |-> "POST", url |-> u, body |-> MarshalEnvelope(data)]
put(u, data) == [verb |-> "PUT", url |-> u, body |-> MarshalEnvelope(data)]
delete(u) == [verb |-> "DELETE", url |-> u, body |-> Nil]

TransportError(cause) == [kind |-> "TransportError", cause |-> cause, wrap |-> <<>>]
IsSuccess(status) == status \in 200..299
RoundTrip(r) ==
  CASE r.kind = "network" -> [body |-> Nil, err |-> TransportError("network")]
    [] r.kind = "context" -> [body |-> Nil, err |-> TransportError("context canceled")]
    [] r.kind = "http" /\ ~IsSuccess(r.status) -> [body |-> Nil, err |-> TransportError("status")]
    [] OTHER -> [body |-> r.body, err |-> Nil]

\* fmt.Sprintf("/webhooks/%s", id) and fmt.Sprintf("/webhooks/%s/signing_secret", id).
Plain(path) == [path |-> path, query |-> <<>>]

(***************************************************************************)
(* Inputs: the webhook ids, the caller's hooks and list options, and the   *)
(* outcomes of one HTTP round trip.                                        *)
(***************************************************************************)
Goroutines == {"g1", "g2"}
Ops == {"ListWebhooks", "CreateWebhook", "GetWebhook", "UpdateWebhook", "DeleteWebhook",
        "GetWebhookSigningSecret"}
IdOps == Ops \ {"ListWebhooks", "CreateWebhook"}
WebhookIDs == {"42", "a/b"}

ZeroHook ==
  [Authentication |-> Nil, CreatedAt |-> ZeroTime, CreatedBy |-> "", Description |-> "",
   Endpoint |-> "", ExternalSource |-> Nil, HTTPMethod |-> "", ID |-> "", Name |-> "",
   RequestFormat |-> "", SigningSecret |-> Nil, Status |-> "", Subscriptions |-> <<>>,
   UpdatedAt |-> ZeroTime, UpdatedBy |-> ""]
\* A hook as a caller fills it in for create and update.
FormHook ==
  [ZeroHook EXCEPT !.Name = "a", !.Endpoint = "https://e", !.HTTPMethod = "POST",
                   !.RequestFormat = "json", !.Status = "active",
                   !.Subscriptions = <<"conditional_ticket_events">>,
                   !.Authentication = [Type |-> "bearer_token", Data |-> JStr("t"),
                                       AddPosition |-> "header"]]
\* A record as the server returns it.
ServerHook ==
  [FormHook EXCEPT !.ID = "42", !.CreatedAt = SomeTime, !.CreatedBy = "7", !.Description = "d",
                   !.ExternalSource = JObj([type |-> JStr("app")]),
                   !.SigningSecret = [Algorithm |-> "sha256", Secret |-> "abc123"],
                   !.UpdatedAt = SomeTime, !.UpdatedBy = "7"]
Hooks == {Nil, ZeroHook, FormHook, ServerHook}

EmptyOpts ==
  [PageOptions |-> ZeroPageOptions, FilterNameContains |-> "", FilterStatus |-> "",
   PageAfter |-> "", PageBefore |-> "", PageSize |-> "", Sort |-> ""]
SortOpts == [EmptyOpts EXCEPT !.Sort = "name"]
FullOpts ==
  [EmptyOpts EXCEPT !.FilterNameContains = "a", !.FilterStatus = "active", !.PageAfter = "c1",
                    !.PageBefore = "c0", !.PageSize = "10", !.Sort = "name"]
ListOptions == {Nil, EmptyOpts, SortOpts, FullOpts}

Bodies ==
  { JEmpty, JMalformed, JNull, JArr(<<>>), JObj(NoMembers),
    JObj([webhook |-> JNull]),
    JObj([webhook |-> MarshalWebhook(ServerHook)]),
    JObj([webhook |-> JObj([id |-> JNum(5)])]),
    JObj([webhooks |-> JArr(<<MarshalWebhook(ServerHook)>>),
          meta |-> JObj([after_cursor |-> JStr("c2"), before_cursor |-> JStr("c1")])]),
    JObj([webhooks |-> JArr(<<>>)]),
    JObj([signing_secret |-> JObj([algorithm |-> JStr("sha256"), secret |-> JStr("abc123")])]) }

Responses ==
  {[kind |-> "network"], [kind |-> "context"]}
    \cup {[kind |-> "http", status |-> 200, body |-> b] : b \in Bodies}
    \cup {[kind |-> "http", status |-> 204, body |-> JEmpty],
          [kind |-> "http", status |-> 404, body |-> JObj([error |-> JStr("RecordNotFound")])],
          [kind |-> "http", status |-> 500, body |-> JMalformed]}

(***************************************************************************)
(* State.  Per goroutine: where its invocation stands, the arguments it    *)
(* was called with, the caller's objects its pointer arguments point to,   *)
(* the request it handed to the transport, how many transport calls it     *)
(* has issued, the outcome of the round trip and what it returned.         *)
(* client is the *Client all goroutines share.                             *)
(***************************************************************************)
VARIABLES pc, arg, caller, req, calls, resp, ret, client
vars == <<pc, arg, caller, req, calls, resp, ret, client>>

NoArg == [op |-> "none", id |-> "", hook |-> Nil, opts |-> Nil]
NoObjects == [hook |-> Nil, opts |-> Nil]
Ret(val, page, err) == [val |-> val, page |-> page, err |-> err]

Init ==
  /\ pc = [p \in Goroutines |-> "idle"]
  /\ arg = [p \in Goroutines |-> NoArg]
  /\ caller = [p \in Goroutines |-> NoObjects]
  /\ req = [p \in Goroutines |-> Nil]
  /\ calls = [p \in Goroutines |-> 0]
  /\ resp = [p \in Goroutines |-> Nil]
  /\ ret = [p \in Goroutines |-> Nil]
  /\ client = [baseURL |-> "https://example.zendesk.com/api/v2"]

\* The invocation of goroutine p starts: its arguments, the objects behind them.
Enter(p, op, id, hook, opts) ==
  /\ pc[p] = "idle"
  /\ arg' = [arg EXCEPT ![p] = [op |-> op, id |-> id, hook |-> hook, opts |-> opts]]
  /\ caller' = [caller EXCEPT ![p] = [hook |-> hook, opts |-> opts]]

\* The handler hands request r to the transport and blocks in the call.
Send(p, r) ==
  /\ req' = [req EXCEPT ![p] = r]
  /\ calls' = [calls EXCEPT ![p] = @ + 1]
  /\ pc' = [pc EXCEPT ![p] = "waiting"]
  /\ UNCHANGED <<resp, ret, client>>

\* The handler returns out without calling the transport.
ReturnEarly(p, out) ==
  /\ pc' = [pc EXCEPT ![p] = "done"]
  /\ ret' = [ret EXCEPT ![p] = out]
  /\ UNCHANGED <<req, calls, resp, client>>

\* The transport call of p returned with outcome r and the handler returns out.
Finish(p, r, out) ==
  /\ resp' = [resp EXCEPT ![p] = r]
  /\ ret' = [ret EXCEPT ![p] = out]
  /\ pc' = [pc EXCEPT ![p] = "done"]
  /\ UNCHANGED <<arg, caller, req, calls, client>>

Waiting(p, op) == pc[p] = "waiting" /\ arg[p].op = op

(***************************************************************************)
(* ListWebhooks                                                            *)
(***************************************************************************)
\* (variant: a default page size for absent options)
DefaultOptsSized(opts) == IF opts = Nil THEN [EmptyOpts EXCEPT !.PageSize = "100"] ELSE opts
\* tmp := opts; if tmp == nil { tmp = &WebhookListOptions{} }
DefaultOpts(opts) == IF opts = Nil THEN EmptyOpts ELSE opts

ListWebhooksCall(p, opts) ==
  /\ Enter(p, "ListWebhooks", "", Nil, opts)
  /\ LET tmp == DefaultOpts(opts)
         a == addOptions("/webhooks", tmp)
     IN  IF a.err # Nil THEN ReturnEarly(p, Ret(Nil, ZeroPage, a.err))
         ELSE Send(p, get(a.u))

\* t is what z.get returned: the body or the error.
ListWebhooksResult(t) ==
  IF t.err # Nil THEN Ret(Nil, ZeroPage, t.err)
  ELSE LET data == UnmarshalData(t.body)
       IN  IF data.err # Nil THEN Ret(Nil, ZeroPage, data.err)
           ELSE Ret(data.Webhooks, data.Page, Nil)

\* (variant: follows the page cursor with a second call before returning)
ListWebhooksReturnPaging(p) ==
  /\ Waiting(p, "ListWebhooks")
  /\ \E r \in Responses :
        LET out == ListWebhooksResult(RoundTrip(r))
        IN  IF out.err = Nil /\ out.page.After # "" /\ calls[p] < 2
            THEN /\ calls' = [calls EXCEPT ![p] = @ + 1]
                 /\ UNCHANGED <<pc, arg, caller, req, resp, ret, client>>
            ELSE Finish(p, r, out)
ListWebhooksReturn(p) ==
  /\ Waiting(p, "ListWebhooks")
  /\ \E r \in Responses : Finish(p, r, ListWebhooksResult(RoundTrip(r)))

(***************************************************************************)
(* CreateWebhook                                                           *)
(***************************************************************************)
\* data.Webhook = hook; z.post(ctx, "/webhooks", data)
CreateWebhookRequest(hook) == post(Plain("/webhooks"), [Webhook |-> hook])

CreateWebhookCall(p, hook) ==
  /\ Enter(p, "CreateWebhook", "", hook, Nil)
  /\ Send(p, CreateWebhookRequest(hook))

CreateWebhookResult(t) ==
  IF t.err # Nil THEN Ret(Nil, ZeroPage, t.err)
  ELSE LET result == UnmarshalResult(t.body)
       IN  IF result.err # Nil THEN Ret(Nil, ZeroPage, result.err)
           ELSE Ret(result.Webhook, ZeroPage, Nil)

\* (variant: decodes the response into data, whose Webhook is the caller's hook,
\* so the server record is written through the caller's pointer)
CreateWebhookReturnInPlace(p) ==
  /\ Waiting(p, "CreateWebhook")
  /\ \E r \in Responses :
        LET out == CreateWebhookResult(RoundTrip(r))
        IN  /\ resp' = [resp EXCEPT ![p] = r]
            /\ ret' = [ret EXCEPT ![p] = out]
            /\ pc' = [pc EXCEPT ![p] = "done"]
            /\ caller' = [caller EXCEPT ![p].hook =
                             IF @ # Nil /\ out.val # Nil THEN out.val ELSE @]
            /\ UNCHANGED <<arg, req, calls, client>>
\* result is a variable of its own: nothing is stored through hook.
CreateWebhookReturn(p) ==
  /\ Waiting(p, "CreateWebhook")
  /\ \E r \in Responses : Finish(p, r, CreateWebhookResult(RoundTrip(r)))

(***************************************************************************)
(* GetWebhook                                                              *)
(***************************************************************************)
GetWebhookRequest(webhookID) == get(Plain("/webhooks/" \o webhookID))

GetWebhookCall(p, webhookID) ==
  /\ Enter(p, "GetWebhook", webhookID, Nil, Nil)
  /\ Send(p, GetWebhookRequest(webhookID))

\* (variant: the error is wrapped with the operation name before it is returned)
GetWebhookResultWrapped(t) ==
  IF t.err # Nil THEN Ret(Nil, ZeroPage, [t.err EXCEPT !.wrap = <<"GetWebhook">>])
  ELSE LET result == UnmarshalResult(t.body)
       IN  IF result.err # Nil
           THEN Ret(Nil, ZeroPage, [result.err EXCEPT !.wrap = <<"GetWebhook">>])
           ELSE Ret(result.Webhook, ZeroPage, Nil)
GetWebhookResult(t) ==
  IF t.err # Nil THEN Ret(Nil, ZeroPage, t.err)
  ELSE LET result == UnmarshalResult(t.body)
       IN  IF result.err # Nil THEN Ret(Nil, ZeroPage, result.err)
           ELSE Ret(result.Webhook, ZeroPage, Nil)

\* (variant: the response is read from a buffer the invocations share, so the
\* handler may see the outcome of another goroutine's round trip)
GetWebhookReturnShared(p) ==
  /\ Waiting(p, "GetWebhook")
  /\ \E r \in Responses :
        LET others == {q \in Goroutines \ {p} : resp[q] # Nil}
            seen == IF others = {} THEN r ELSE resp[CHOOSE q \in others : TRUE]
        IN  Finish(p, r, GetWebhookResult(RoundTrip(seen)))
\* body and result are local to the invocation.
GetWebhookReturn(p) ==
  /\ Waiting(p, "GetWebhook")
  /\ \E r \in Responses : Finish(p, r, GetWebhookResult(RoundTrip(r)))

(***************************************************************************)
(* UpdateWebhook                                                           *)
(***************************************************************************)
\* (variant: the wrong transport helper)
UpdateWebhookRequestPost(webhookID, hook) ==
  post(Plain("/webhooks/" \o webhookID), [Webhook |-> hook])
\* data.Webhook = hook; z.put(ctx, fmt.Sprintf("/webhooks/%s", webhookID), data)
UpdateWebhookRequest(webhookID, hook) ==
  put(Plain("/webhooks/" \o webhookID), [Webhook |-> hook])

UpdateWebhookCall(p, webhookID, hook) ==
  /\ Enter(p, "UpdateWebhook", webhookID, hook, Nil)
  /\ Send(p, UpdateWebhookRequest(webhookID, hook))

\* (variant: decodes the response body like the other operations)
UpdateWebhookResultDecoding(t) ==
  IF t.err # Nil THEN Ret(Nil, ZeroPage, t.err)
  ELSE Ret(Nil, ZeroPage, UnmarshalResult(t.body).err)
\* _, err := z.put(...): the body is dropped.
UpdateWebhookResult(t) ==
  IF t.err # Nil THEN Ret(Nil, ZeroPage, t.err) ELSE Ret(Nil, ZeroPage, Nil)

UpdateWebhookReturn(p) ==
  /\ Waiting(p, "UpdateWebhook")
  /\ \E r \in Responses : Finish(p, r, UpdateWebhookResult(RoundTrip(r)))

(***************************************************************************)
(* DeleteWebhook                                                           *)
(***************************************************************************)
DeleteWebhookRequest(webhookID) == delete(Plain("/webhooks/" \o webhookID))

DeleteWebhookCall(p, webhookID) ==
  /\ Enter(p, "DeleteWebhook", webhookID, Nil, Nil)
  /\ Send(p, DeleteWebhookRequest(webhookID))

\* err := z.delete(...)
DeleteWebhookResult(t) ==
  IF t.err # Nil THEN Ret(Nil, ZeroPage, t.err) ELSE Ret(Nil, ZeroPage, Nil)

DeleteWebhookReturn(p) ==
  /\ Waiting(p, "DeleteWebhook")
  /\ \E r \in Responses : Finish(p, r, DeleteWebhookResult(RoundTrip(r)))

(***************************************************************************)
(* GetWebhookSigningSecret                                                 *)
(***************************************************************************)
GetWebhookSigningSecretRequest(webhookID) ==
  get(Plain("/webhooks/" \o webhookID \o "/signing_secret"))

GetWebhookSigningSecretCall(p, webhookID) ==
  /\ Enter(p, "GetWebhookSigningSecret", webhookID, Nil, Nil)
  /\ Send(p, GetWebhookSigningSecretRequest(webhookID))

GetWebhookSigningSecretResult(t) ==
  IF t.err # Nil THEN Ret(Nil, ZeroPage, t.err)
  ELSE LET result == UnmarshalSecretResult(t.body)
       IN  IF result.err # Nil THEN Ret(Nil, ZeroPage, result.err)
           ELSE Ret(result.SigningSecret, ZeroPage, Nil)

GetWebhookSigningSecretReturn(p) ==
  /\ Waiting(p, "GetWebhookSigningSecret")
  /\ \E r \in Responses : Finish(p, r, GetWebhookSigningSecretResult(RoundTrip(r)))

\* The caller has taken the result; the goroutine is free for its next call.
Exit(p) ==
  /\ pc[p] = "done"
  /\ pc' = [pc EXCEPT ![p] = "idle"]
  /\ arg' = [arg EXCEPT ![p] = NoArg]
  /\ caller' = [caller EXCEPT ![p] = NoObjects]
  /\ req' = [req EXCEPT ![p] = Nil]
  /\ calls' = [calls EXCEPT ![p] = 0]
  /\ resp' = [resp EXCEPT ![p] = Nil]
  /\ ret' = [ret EXCEPT ![p] = Nil]
  /\ UNCHANGED client

Next ==
  \E p \in Goroutines :
     \/ \E opts \in ListOptions : ListWebhooksCall(p, opts)
     \/ ListWebhooksReturn(p)
     \/ \E hook \in Hooks : CreateWebhookCall(p, hook)
     \/ CreateWebhookReturn(p)
     \/ \E webhookID \in WebhookIDs : GetWebhookCall(p, webhookID)
     \/ GetWebhookReturn(p)
     \/ \E webhookID \in WebhookIDs, hook \in Hooks : UpdateWebhookCall(p, webhookID, hook)
     \/ UpdateWebhookReturn(p)
     \/ \E webhookID \in WebhookIDs : DeleteWebhookCall(p, webhookID)
     \/ DeleteWebhookReturn(p)
     \/ \E webhookID \in WebhookIDs : GetWebhookSigningSecretCall(p, webhookID)
     \/ GetWebhookSigningSecretReturn(p)
     \/ Exit(p)

Spec == Init /\ [][Next]_vars

(***************************************************************************)
(* Properties.                                                             *)
(***************************************************************************)
Started(p) == pc[p] # "idle"
Done(p) == pc[p] = "done"

\* The endpoint table of the API.
DocVerb ==
  [ListWebhooks |-> "GET", CreateWebhook |-> "POST", GetWebhook |-> "GET",
   UpdateWebhook |-> "PUT", DeleteWebhook |-> "DELETE", GetWebhookSigningSecret |-> "GET"]
DocPath(op, id) ==
  CASE op \in {"ListWebhooks", "CreateWebhook"} -> "/webhooks"
    [] op = "GetWebhookSigningSecret" -> "/webhooks/" \o id \o "/signing_secret"
    [] OTHER -> "/webhooks/" \o id

\* C1: the request handed to the transport has the documented verb and path for
\* every operation and id (only ListWebhooks adds a query); CreateWebhook and
\* UpdateWebhook send the caller's hook under the single body key "webhook" and
\* the other four operations send no body.
C1_VerbPathBody ==
  \A p \in Goroutines :
     Started(p) =>
        /\ req[p] # Nil
        /\ req[p].verb = DocVerb[arg[p].op]
        /\ req[p].url.path = DocPath(arg[p].op, arg[p].id)
        /\ arg[p].op # "ListWebhooks" => req[p].url.query = <<>>
        /\ IF arg[p].op \in {"CreateWebhook", "UpdateWebhook"}
           THEN /\ req[p].body.j = "object"
                /\ DOMAIN req[p].body.v = {"webhook"}
                /\ req[p].body.v["webhook"] = MarshalWebhook(arg[p].hook)
           ELSE req[p].body = Nil

C1_Witness ==
  \E p \in Goroutines :
     /\ pc[p] = "waiting" /\ arg[p].op = "UpdateWebhook"
     /\ arg[p].id = "a/b" /\ arg[p].hook = FormHook
     /\ req[p].verb = "PUT" /\ req[p].url.path = "/webhooks/a/b"

\* C2: ListWebhooks, CreateWebhook, GetWebhook and GetWebhookSigningSecret return
\* either a non-nil result with a nil error, or the zero value (nil, empty Page)
\* with a non-nil error, whatever the transport outcome and the response body.
C2_NoPartialSuccess ==
  \A p \in Goroutines :
     Done(p) /\ arg[p].op \in {"ListWebhooks", "CreateWebhook", "GetWebhook",
                               "GetWebhookSigningSecret"} =>
        \/ ret[p].err = Nil /\ ret[p].val # Nil
        \/ ret[p].err # Nil /\ ret[p].val = Nil /\ ret[p].page = ZeroPage

\* C3: an invocation issues one transport call and no other: none after a failed
\* or cancelled call, which the same invocation returns as its error, and none
\* for a next page whatever cursors the returned Page holds.
C3_SingleCall ==
  \A p \in Goroutines :
     /\ calls[p] <= 1
     /\ Started(p) => calls[p] = 1
     /\ Done(p) /\ (resp[p].kind # "http" \/ resp[p].status \notin 200..299) =>
           ret[p].err # Nil /\ ret[p].err.kind = "TransportError"

C3_Witness ==
  \E p, q \in Goroutines :
     /\ Done(p) /\ arg[p].op = "ListWebhooks" /\ ret[p].err = Nil
     /\ ret[p].page.After # "" /\ calls[p] = 1
     /\ Done(q) /\ resp[q].kind = "context" /\ ret[q].err # Nil /\ calls[q] = 1

\* The error of the collaborator that failed in the invocation of p: the
\* transport's, or else json.Unmarshal's on the body it returned.
DecodeErrors == {SyntaxError, TypeError}
CollaboratorErrors(p) ==
  IF RoundTrip(resp[p]).err # Nil THEN {RoundTrip(resp[p]).err} ELSE DecodeErrors

\* C4 as stated: every returned error is a TransportError or a DecodeError and
\* is wrapped with the operation name and, for the operations taking an id, the
\* resource id; it is never the collaborator's bare error value.
C4_WrappedWithContext ==
  \A p \in Goroutines :
     Done(p) /\ ret[p].err # Nil =>
        /\ ret[p].err.kind \in {"TransportError", "DecodeError"}
        /\ ret[p].err.wrap =
              IF arg[p].op \in IdOps THEN <<arg[p].op, arg[p].id>> ELSE <<arg[p].op>>
        /\ ret[p].err \notin CollaboratorErrors(p)

\* C4 as amended: every returned error is the error value of the collaborator
\* that failed, returned as it is: the transport call's TransportError or
\* json.Unmarshal's DecodeError (an error of addOptions would be returned the
\* same way), with no operation name or resource id wrapped around it.
C4_ErrorsPassedThrough ==
  \A p \in Goroutines :
     Done(p) /\ ret[p].err # Nil =>
        /\ ret[p].err.kind \in {"TransportError", "DecodeError"}
        /\ ret[p].err \in CollaboratorErrors(p)
        /\ ret[p].err.wrap = <<>>

C4_Witness ==
  \E p, q \in Goroutines :
     /\ Done(p) /\ arg[p].op = "GetWebhook" /\ ret[p].err # Nil
     /\ ret[p].err.kind = "DecodeError"
     /\ Done(q) /\ arg[q].op = "GetWebhook" /\ ret[q].err # Nil
     /\ ret[q].err.kind = "TransportError"

\* C5: UpdateWebhook returns a nil error on every 2xx response, whatever the
\* body (empty, malformed, any JSON), and a TransportError on every other
\* status; two updates answered with the same status return the same error.
C5_UpdateIgnoresBody ==
  \A p \in Goroutines :
     Done(p) /\ arg[p].op = "UpdateWebhook" /\ resp[p].kind = "http" =>
        /\ (resp[p].status >= 200 /\ resp[p].status < 300) => ret[p].err = Nil
        /\ ~(resp[p].status >= 200 /\ resp[p].status < 300) =>
              ret[p].err # Nil /\ ret[p].err.kind = "TransportError"
        /\ \A q \in Goroutines :
              Done(q) /\ arg[q].op = "UpdateWebhook" /\ resp[q].kind = "http"
                 /\ resp[q].status = resp[p].status => ret[q] = ret[p]

C5_Witness ==
  \E p, q \in Goroutines :
     /\ Done(p) /\ arg[p].op = "UpdateWebhook" /\ resp[p].kind = "http"
     /\ resp[p].status = 200 /\ resp[p].body = JMalformed /\ ret[p].err = Nil
     /\ Done(q) /\ arg[q].op = "UpdateWebhook" /\ resp[q].kind = "http"
     /\ resp[q].status = 404 /\ ret[q].err # Nil

\* The JSON keys of a Webhook: the five always written, and the ten written
\* only for a field that is non-empty (a timestamp: not the zero time).
DocAlwaysKeys == {"endpoint", "http_method", "name", "request_format", "status"}
DocPresentKeys(h) ==
  {k \in {"created_by", "description", "id", "updated_by"} :
      h[TagOf(WebhookFields, k).field] # ""}
    \cup {k \in {"authentication", "external_source", "signing_secret"} :
            h[TagOf(WebhookFields, k).field] # Nil}
    \cup {k \in {"created_at", "updated_at"} : h[TagOf(WebhookFields, k).field] # ZeroTime}
    \cup {k \in {"subscriptions"} : h.Subscriptions # <<>>}

\* C6: an encoded Webhook holds the keys endpoint, http_method, name,
\* request_format and status always, and each of the other ten keys if and only
\* if its field is non-empty; a zero created_at or updated_at is left out.
C6_EmittedKeys ==
  \A p \in Goroutines :
     Started(p) /\ arg[p].op \in {"CreateWebhook", "UpdateWebhook"} /\ arg[p].hook # Nil =>
        DOMAIN req[p].body.v["webhook"].v = DocAlwaysKeys \cup DocPresentKeys(arg[p].hook)

\* The query parameters of the list endpoint.
DocParam ==
  [FilterNameContains |-> "filter[name_contains]", FilterStatus |-> "filter[status]",
   PageAfter |-> "page[after]", PageBefore |-> "page[before]", PageSize |-> "page[size]",
   Sort |-> "sort"]

C8_NilIsEmpty ==
  \A p, q \in Goroutines :
     /\ Started(p) /\ arg[p].op = "ListWebhooks" /\ arg[p].opts = Nil
     /\ Started(q) /\ arg[q].op = "ListWebhooks" /\ arg[q].opts = EmptyOpts
     => /\ req[p] # Nil /\ req[p] = req[q]
        /\ req[p].url.query = <<>>
        /\ Done(p) /\ Done(q) /\ resp[p] = resp[q] => ret[p] = ret[q]

C8_Witness ==
  \E p, q \in Goroutines :
     /\ Done(p) /\ arg[p].op = "ListWebhooks" /\ arg[p].opts = Nil
     /\ Done(q) /\ arg[q].op = "ListWebhooks" /\ arg[q].opts = EmptyOpts
     /\ resp[p] = resp[q] /\ ret[p].err = Nil /\ ret[p].val # Nil

\* C9: the caller's hook and options are unchanged after CreateWebhook,
\* UpdateWebhook and ListWebhooks, on success and on failure; the record the
\* server assigned is returned and not written into the caller's hook.
C9_CallerValuesUnchanged ==
  \A p \in Goroutines :
     Started(p) => caller[p].hook = arg[p].hook /\ caller[p].opts = arg[p].opts

C9_Witness ==
  \E p \in Goroutines :
     /\ Done(p) /\ arg[p].op = "CreateWebhook" /\ arg[p].hook = FormHook
     /\ ret[p].err = Nil /\ ret[p].val # Nil /\ ret[p].val.ID = "42"
     /\ caller[p].hook.ID = ""

\* C10: invocations running concurrently on the shared client are independent:
\* a step of one goroutine changes nothing of another's invocation and nothing
\* of the client, and two invocations with the same arguments and the same
\* transport outcome issue the same request and return the same result,
\* whatever ran beside them.
Invocation(p) == <<pc[p], arg[p], caller[p], req[p], calls[p], resp[p], ret[p]>>
SameInSameOut ==
  \A p, q \in Goroutines :
     Done(p) /\ Done(q) /\ arg[p] = arg[q] /\ resp[p] = resp[q] =>
        req[p] = req[q] /\ ret[p] = ret[q]
C10_Independent ==
  [][ /\ client' = client
      /\ \A p, q \in Goroutines : p # q /\ Invocation(p)' # Invocation(p) =>
            Invocation(q)' = Invocation(q)
      /\ SameInSameOut' ]_vars

C10_Witness ==
  \E p, q \in Goroutines :
     /\ p # q /\ Done(p) /\ Done(q)
     /\ arg[p].op = "GetWebhook" /\ arg[p] = arg[q] /\ resp[p] = resp[q]
     /\ ret[p].err = Nil /\ ret[p].val # Nil
====
